---- MODULE Spec2Model ----
(***************************************************************************)
(* Model of src/src/qf_esp32_tick.cpp: the ESP32 tick driver of QP/C++.    *)
(*                                                                         *)
(*   tickHook_ESP32      the FreeRTOS tick hook (ISR context)              *)
(*   QpTickTask          the dispatch task: ulTaskNotifyTake, then TICK_X  *)
(*   ESP32_tickHookInit  creates the task, then registers the hook         *)
(*                                                                         *)
(* The FreeRTOS / ESP-IDF primitives the file calls are modelled by their  *)
(* documented behaviour at the call site: a task notification is a 32-bit  *)
(* value plus a notify state, vTaskNotifyGiveFromISR increments the value, *)
(* ulTaskNotifyTake(pdTRUE, portMAX_DELAY) blocks while it is zero and     *)
(* clears it on exit, configASSERT halts the system when its argument is   *)
(* false, and esp_register_freertos_tick_hook_for_cpu appends the callback *)
(* to the per-core table the tick interrupt walks.                         *)
(***************************************************************************)
EXTENDS Integers, Sequences, FiniteSets, TLC

\* ------------------------------------------------------------------ bounds
MaxTicks == 3       \* hardware ticks delivered in one behaviour
MaxTasks == 2       \* task control blocks the heap has room for
MaxRate == 1        \* tick rates are 0..MaxRate
MaxPrio == 1        \* task priorities are 0..MaxPrio
NumCallers == 2     \* contexts that may call ESP32_tickHookInit

\* --------------------------------------------------------------- constants
NULL == 0                   \* nullptr, the value s_qpTickTask starts with
QP_CPU_NUM == 0             \* the core QP runs on (qf_port.hpp)
Startup == 1                \* the caller that is the BSP's QF::onStartup()

\* blocked in the wait, woken but not yet running, inside TICK_X
Landings == {"blocked", "resume", "tick"}

Tasks == 1..MaxTasks
Callers == 1..NumCallers
Rates == 0..MaxRate
Prios == 0..MaxPrio

VARIABLES
  s_qpTickTask,     \* static TaskHandle_t s_qpTickTask
  s_tickRate,       \* static uint_fast8_t s_tickRate
  taskPc,           \* per task: where QpTickTask is ("none": not created)
  taskPrio,         \* per task: uxPriority given at creation
  taskCore,         \* per task: xCoreID given at creation
  ulNotifiedValue,  \* per task: the notification value
  ucNotifyState,    \* per task: the notification state
  tick_cb,          \* the hooks registered by the driver: the core of each
  initPc,           \* per caller: where ESP32_tickHookInit is
  argRate,          \* per caller: the tickRate argument
  argPrio,          \* per caller: the tickTaskPrio argument
  ok,               \* per caller: the local BaseType_t ok
  hookPc,           \* where tickHook_ESP32 is
  isrLeft,          \* hook invocations the running tick interrupt still owes
  xHigherPriorityTaskWoken,  \* the local of tickHook_ESP32
  halted,           \* a configASSERT has failed
  \* history
  hwTicks,          \* hardware ticks on QP_CPU_NUM so far
  tickInit,         \* the hook was registered when the last tick arrived
  tickGives,        \* gives made during the running or last tick interrupt
  hookGives,        \* gives made by the running or last hook invocation
  nullSeen,         \* a hook invocation has found s_qpTickTask null
  gives,            \* calls of vTaskNotifyGiveFromISR so far
  lastTarget,       \* the task the last give targeted
  sinceTake,        \* per task: gives since its last take returned
  bursts,           \* gives that were the first since the target's last take
                    \* returned: the bursts of ticks signalled so far
  yielded,          \* the running or last hook invocation called
                    \* portYIELD_FROM_ISR
  landed,           \* where the dispatch task was when a give landed,
                    \* among Landings
  owed,             \* the hook has run and no TICK_X has started since
  tickXCalls,       \* invocations of QTimeEvt::TICK_X started so far
  rateGroup,        \* first argument of the last TICK_X
  firstRate,        \* tickRate of the first call (-1: none yet)
  firstPrio,        \* tickTaskPrio of the first call (-1: none yet)
  createFailed,     \* an xTaskCreatePinnedToCore has failed
  repeatDiffered    \* a call that returned at the guard had other
                    \* arguments than the first call

prog == <<s_qpTickTask, s_tickRate, taskPrio, taskCore, tick_cb, halted>>
notif == <<taskPc, ulNotifiedValue, ucNotifyState>>
initv == <<initPc, argRate, argPrio, ok>>
hookv == <<hookPc, isrLeft, xHigherPriorityTaskWoken>>
histTick == <<hwTicks, tickInit, tickGives>>
histHook == <<hookGives, nullSeen, gives, lastTarget, sinceTake, bursts,
              yielded, landed>>
histTask == <<tickXCalls, rateGroup>>
histInit == <<firstRate, firstPrio, createFailed, repeatDiffered>>
vars == <<prog, notif, initv, hookv, histTick, histHook, owed, histTask,
          histInit>>

Init ==
  /\ s_qpTickTask = NULL
  /\ s_tickRate = 0
  /\ taskPc = [t \in Tasks |-> "none"]
  /\ taskPrio = [t \in Tasks |-> 0]
  /\ taskCore = [t \in Tasks |-> QP_CPU_NUM]
  /\ ulNotifiedValue = [t \in Tasks |-> 0]
  /\ ucNotifyState = [t \in Tasks |-> "NOT_WAITING"]
  /\ tick_cb = <<>>
  /\ initPc = [c \in Callers |-> "idle"]
  /\ argRate = [c \in Callers |-> 0]
  /\ argPrio = [c \in Callers |-> 0]
  /\ ok = [c \in Callers |-> FALSE]
  /\ hookPc = "idle"
  /\ isrLeft = 0
  /\ xHigherPriorityTaskWoken = FALSE
  /\ halted = FALSE
  /\ hwTicks = 0
  /\ tickInit = FALSE
  /\ tickGives = 0
  /\ hookGives = 0
  /\ nullSeen = FALSE
  /\ gives = 0
  /\ lastTarget = NULL
  /\ sinceTake = [t \in Tasks |-> 0]
  /\ bursts = 0
  /\ yielded = FALSE
  /\ landed = {}
  /\ owed = FALSE
  /\ tickXCalls = 0
  /\ rateGroup = 0
  /\ firstRate = -1
  /\ firstPrio = -1
  /\ createFailed = FALSE
  /\ repeatDiffered = FALSE

\* ------------------------------------------------------- tickHook_ESP32
\* The tick interrupt of QP_CPU_NUM runs to completion before any task of
\* that core runs again.
InIsr == hookPc # "idle" \/ isrLeft > 0

\* A hardware tick on QP_CPU_NUM: the interrupt calls every hook registered
\* for the core (none before the registration).
HwTick ==
  /\ ~halted
  /\ ~InIsr
  /\ hwTicks < MaxTicks
  /\ hwTicks' = hwTicks + 1
  /\ isrLeft' = Len(tick_cb)
  /\ tickInit' = (tick_cb # <<>>)
  /\ tickGives' = 0
  /\ UNCHANGED <<prog, notif, initv, hookPc, xHigherPriorityTaskWoken,
                 histHook, owed, histTask, histInit>>

\* line 33: entry of the hook, xHigherPriorityTaskWoken = pdFALSE
TickHookEnter ==
  /\ ~halted
  /\ hookPc = "idle"
  /\ isrLeft > 0
  /\ isrLeft' = isrLeft - 1
  /\ hookPc' = "check"
  /\ xHigherPriorityTaskWoken' = FALSE
  /\ hookGives' = 0
  /\ yielded' = FALSE
  /\ owed' = TRUE
  /\ UNCHANGED <<prog, notif, initv, histTick, nullSeen, gives, lastTarget,
                 sinceTake, bursts, landed, histTask, histInit>>

HookHandleSet_always == TRUE

HookHandleSet_inverted == s_qpTickTask = NULL

\* line 35: s_qpTickTask != nullptr
HookHandleSet == s_qpTickTask # NULL

\* line 35: the null check of the hook; with a null handle the hook returns
TickHookCheck ==
  /\ ~halted
  /\ hookPc = "check"
  /\ IF HookHandleSet
       THEN hookPc' = "give" /\ UNCHANGED nullSeen
       ELSE hookPc' = "idle" /\ nullSeen' = TRUE
  /\ UNCHANGED <<prog, notif, initv, isrLeft, xHigherPriorityTaskWoken,
                 histTick, hookGives, gives, lastTarget, sinceTake, bursts,
                 yielded, landed, owed, histTask, histInit>>

GiveValue_binary(v) == 1

\* vTaskNotifyGiveFromISR: ( pxTCB->ulNotifiedValue )++ (a uint32_t, which
\* the at most MaxTicks gives of a behaviour never wrap)
GiveValue(v) == v + 1

GiveWakes_never(state) == FALSE

\* vTaskNotifyGiveFromISR unblocks the task when it was waiting
GiveWakes(state) == state = "WAITING"

\* line 36: vTaskNotifyGiveFromISR(s_qpTickTask, &xHigherPriorityTaskWoken).
\* The value is incremented and the state set to "received"; a task that
\* was waiting is unblocked, and the flag is set when its priority is above
\* that of the task the interrupt preempted (rp).  FreeRTOS asserts that
\* the handle is not null.
TickHookGive ==
  /\ ~halted
  /\ hookPc = "give"
  /\ IF s_qpTickTask = NULL
       THEN /\ halted' = TRUE
            /\ hookPc' = "idle"
            /\ UNCHANGED <<s_qpTickTask, s_tickRate, taskPrio, taskCore,
                           tick_cb, notif, xHigherPriorityTaskWoken,
                           tickGives, hookGives, gives, lastTarget,
                           sinceTake, bursts, landed>>
       ELSE LET t == s_qpTickTask
                wakes == GiveWakes(ucNotifyState[t])
            IN /\ ulNotifiedValue' =
                    [ulNotifiedValue EXCEPT ![t] = GiveValue(@)]
               /\ ucNotifyState' = [ucNotifyState EXCEPT ![t] = "RECEIVED"]
               /\ taskPc' = IF wakes
                              THEN [taskPc EXCEPT ![t] = "resume"]
                              ELSE taskPc
               /\ \E rp \in Prios :
                    xHigherPriorityTaskWoken' = (wakes /\ taskPrio[t] > rp)
               /\ hookPc' = "test"
               /\ gives' = gives + 1
               /\ tickGives' = tickGives + 1
               /\ hookGives' = hookGives + 1
               /\ lastTarget' = t
               /\ sinceTake' = [sinceTake EXCEPT ![t] = @ + 1]
               /\ bursts' = IF sinceTake[t] = 0 THEN bursts + 1 ELSE bursts
               /\ landed' = landed \cup ({taskPc[t]} \cap Landings)
               /\ UNCHANGED prog
  /\ UNCHANGED <<initv, isrLeft, hwTicks, tickInit, nullSeen, yielded, owed,
                 histTask, histInit>>

YieldWanted_always == TRUE

\* line 37: xHigherPriorityTaskWoken != pdFALSE
YieldWanted == xHigherPriorityTaskWoken # FALSE

\* line 37: if (xHigherPriorityTaskWoken != pdFALSE)
TickHookTest ==
  /\ ~halted
  /\ hookPc = "test"
  /\ hookPc' = IF YieldWanted THEN "yield" ELSE "idle"
  /\ UNCHANGED <<prog, notif, initv, isrLeft, xHigherPriorityTaskWoken,
                 histTick, histHook, owed, histTask, histInit>>

\* line 38: portYIELD_FROM_ISR()
TickHookYield ==
  /\ ~halted
  /\ hookPc = "yield"
  /\ hookPc' = "idle"
  /\ yielded' = TRUE
  /\ UNCHANGED <<prog, notif, initv, isrLeft, xHigherPriorityTaskWoken,
                 histTick, hookGives, nullSeen, gives, lastTarget, sinceTake,
                 bursts, landed, owed, histTask, histInit>>

tickHook_ESP32 ==
  \/ TickHookEnter
  \/ TickHookCheck
  \/ TickHookGive
  \/ TickHookTest
  \/ TickHookYield

\* ----------------------------------------------------------- QpTickTask
\* A task of QP_CPU_NUM does not run while the tick interrupt of that core
\* is in progress.
CanRun(t) == ~halted /\ ~(InIsr /\ taskCore[t] = QP_CPU_NUM)

TakeBlocks_never(v) == FALSE

\* xTicksToWait == portMAX_DELAY: the take blocks whenever the value is zero
TakeBlocks(v) == v = 0

\* line 50, entry of ulTaskNotifyTake(pdTRUE, portMAX_DELAY): with the value
\* zero the task marks itself waiting and blocks, with no timeout.
TaskTake(t) ==
  /\ CanRun(t)
  /\ taskPc[t] = "take"
  /\ IF TakeBlocks(ulNotifiedValue[t])
       THEN /\ ucNotifyState' = [ucNotifyState EXCEPT ![t] = "WAITING"]
            /\ taskPc' = [taskPc EXCEPT ![t] = "blocked"]
       ELSE /\ taskPc' = [taskPc EXCEPT ![t] = "resume"]
            /\ UNCHANGED ucNotifyState
  /\ UNCHANGED <<prog, ulNotifiedValue, initv, hookv, histTick, histHook,
                 owed, histTask, histInit>>

TakeValueOnExit_decrement(v) == v - 1

\* xClearCountOnExit == pdTRUE: the value is cleared to zero
TakeValueOnExit(v) == 0

\* line 50, exit of ulTaskNotifyTake: the value is read and, when not zero,
\* cleared; the state goes back to "not waiting".
TaskTakeExit(t) ==
  /\ CanRun(t)
  /\ taskPc[t] = "resume"
  /\ LET ulReturn == ulNotifiedValue[t]
     IN ulNotifiedValue' =
          [ulNotifiedValue EXCEPT
             ![t] = IF ulReturn # 0 THEN TakeValueOnExit(ulReturn) ELSE @]
  /\ ucNotifyState' = [ucNotifyState EXCEPT ![t] = "NOT_WAITING"]
  /\ taskPc' = [taskPc EXCEPT ![t] = "call"]
  /\ sinceTake' = [sinceTake EXCEPT ![t] = 0]
  /\ UNCHANGED <<prog, initv, hookv, histTick, hookGives, nullSeen, gives,
                 lastTarget, bursts, yielded, landed, owed, histTask,
                 histInit>>

\* lines 54 and 56: the first argument of TICK_X is the literal 0U
TickRateArg == 0

\* lines 53-57: QTimeEvt::TICK_X(0U, sender) is entered
TaskTickXBegin(t) ==
  /\ CanRun(t)
  /\ taskPc[t] = "call"
  /\ taskPc' = [taskPc EXCEPT ![t] = "tick"]
  /\ tickXCalls' = tickXCalls + 1
  /\ rateGroup' = TickRateArg
  /\ owed' = FALSE
  /\ UNCHANGED <<prog, ulNotifiedValue, ucNotifyState, initv, hookv,
                 histTick, histHook, histInit>>

\* lines 53-59: TICK_X returns and the loop goes round
TaskTickXEnd(t) ==
  /\ CanRun(t)
  /\ taskPc[t] = "tick"
  /\ taskPc' = [taskPc EXCEPT ![t] = "take"]
  /\ UNCHANGED <<prog, ulNotifiedValue, ucNotifyState, initv, hookv,
                 histTick, histHook, owed, histTask, histInit>>

QpTickTask(t) ==
  \/ TaskTake(t)
  \/ TaskTakeExit(t)
  \/ TaskTickXBegin(t)
  \/ TaskTickXEnd(t)

\* --------------------------------------------------- ESP32_tickHookInit
NoCallInProgress == \A c \in Callers : initPc[c] = "idle"

\* line 64: a caller enters ESP32_tickHookInit(tickRate, tickTaskPrio)
InitCall(c, tickRate, tickTaskPrio) ==
  /\ ~halted
  /\ initPc[c] = "idle"
  /\ initPc' = [initPc EXCEPT ![c] = "check"]
  /\ argRate' = [argRate EXCEPT ![c] = tickRate]
  /\ argPrio' = [argPrio EXCEPT ![c] = tickTaskPrio]
  /\ firstRate' = IF firstRate = -1 THEN tickRate ELSE firstRate
  /\ firstPrio' = IF firstPrio = -1 THEN tickTaskPrio ELSE firstPrio
  /\ UNCHANGED <<prog, notif, ok, hookv, histTick, histHook, owed, histTask,
                 createFailed, repeatDiffered>>

AlreadyInitialised_never == FALSE

\* line 67: s_qpTickTask != nullptr
AlreadyInitialised == s_qpTickTask # NULL

\* lines 67-69: the idempotency guard; the locals end with the call
InitCheck(c) ==
  /\ ~halted
  /\ initPc[c] = "check"
  /\ IF AlreadyInitialised
       THEN /\ initPc' = [initPc EXCEPT ![c] = "idle"]
            /\ argRate' = [argRate EXCEPT ![c] = 0]
            /\ argPrio' = [argPrio EXCEPT ![c] = 0]
            /\ repeatDiffered' =
                 (repeatDiffered \/ argRate[c] # firstRate
                                 \/ argPrio[c] # firstPrio)
       ELSE /\ initPc' = [initPc EXCEPT ![c] = "setRate"]
            /\ UNCHANGED <<argRate, argPrio, repeatDiffered>>
  /\ UNCHANGED <<prog, notif, ok, hookv, histTick, histHook, owed, histTask,
                 firstRate, firstPrio, createFailed>>

\* line 71: s_tickRate = tickRate
InitSetRate(c) ==
  /\ ~halted
  /\ initPc[c] = "setRate"
  /\ s_tickRate' = argRate[c]
  /\ initPc' = [initPc EXCEPT ![c] = "create"]
  /\ UNCHANGED <<s_qpTickTask, taskPrio, taskCore, tick_cb, halted, notif,
                 argRate, argPrio, ok, hookv, histTick, histHook, owed,
                 histTask, histInit>>

FreeTasks == {t \in Tasks : taskPc[t] = "none"}

TaskCoreArg_other == 1 - QP_CPU_NUM

\* line 86: the xCoreID argument of xTaskCreatePinnedToCore
TaskCoreArg == QP_CPU_NUM

\* lines 79-87: xTaskCreatePinnedToCore(QpTickTask, ..., tickTaskPrio,
\* &s_qpTickTask, QP_CPU_NUM).  On success the handle is written and the
\* new task is ready at the top of QpTickTask; when the memory cannot be
\* allocated the handle is left alone and the result is not pdPASS.
InitCreate(c) ==
  /\ ~halted
  /\ initPc[c] = "create"
  /\ initPc' = [initPc EXCEPT ![c] = "assertOk"]
  /\ \/ /\ FreeTasks # {}
        /\ LET h == CHOOSE t \in FreeTasks : \A u \in FreeTasks : t <= u
           IN /\ s_qpTickTask' = h
              /\ taskPc' = [taskPc EXCEPT ![h] = "take"]
              /\ taskPrio' = [taskPrio EXCEPT ![h] = argPrio[c]]
              /\ taskCore' = [taskCore EXCEPT ![h] = TaskCoreArg]
        /\ ok' = [ok EXCEPT ![c] = TRUE]
        /\ UNCHANGED createFailed
     \/ /\ ok' = [ok EXCEPT ![c] = FALSE]
        /\ createFailed' = TRUE
        /\ UNCHANGED <<s_qpTickTask, taskPc, taskPrio, taskCore>>
  /\ UNCHANGED <<s_tickRate, tick_cb, halted, ulNotifiedValue, ucNotifyState,
                 argRate, argPrio, hookv, histTick, histHook, owed, histTask,
                 firstRate, firstPrio, repeatDiffered>>

configASSERT_disabled(x) == TRUE

\* lines 88-89: configASSERT(x) lets the caller go on only when x holds
configASSERT(x) == x

\* line 88: configASSERT(ok == pdPASS)
InitAssertOk(c) ==
  /\ ~halted
  /\ initPc[c] = "assertOk"
  /\ IF configASSERT(ok[c])
       THEN initPc' = [initPc EXCEPT ![c] = "assertHandle"] /\ UNCHANGED halted
       ELSE halted' = TRUE /\ UNCHANGED initPc
  /\ UNCHANGED <<s_qpTickTask, s_tickRate, taskPrio, taskCore, tick_cb, notif,
                 argRate, argPrio, ok, hookv, histTick, histHook, owed,
                 histTask, histInit>>

\* line 89: configASSERT(s_qpTickTask != nullptr)
InitAssertHandle(c) ==
  /\ ~halted
  /\ initPc[c] = "assertHandle"
  /\ IF configASSERT(s_qpTickTask # NULL)
       THEN initPc' = [initPc EXCEPT ![c] = "register"] /\ UNCHANGED halted
       ELSE halted' = TRUE /\ UNCHANGED initPc
  /\ UNCHANGED <<s_qpTickTask, s_tickRate, taskPrio, taskCore, tick_cb, notif,
                 argRate, argPrio, ok, hookv, histTick, histHook, owed,
                 histTask, histInit>>

\* line 93: esp_register_freertos_tick_hook_for_cpu(tickHook_ESP32,
\* QP_CPU_NUM), and the return of the call; the locals end with it
InitRegister(c) ==
  /\ ~halted
  /\ initPc[c] = "register"
  /\ tick_cb' = Append(tick_cb, QP_CPU_NUM)
  /\ initPc' = [initPc EXCEPT ![c] = "idle"]
  /\ argRate' = [argRate EXCEPT ![c] = 0]
  /\ argPrio' = [argPrio EXCEPT ![c] = 0]
  /\ ok' = [ok EXCEPT ![c] = FALSE]
  /\ UNCHANGED <<s_qpTickTask, s_tickRate, taskPrio, taskCore, halted, notif,
                 hookv, histTick, histHook, owed, histTask, histInit>>

ESP32_tickHookInit(c) ==
  \/ InitCheck(c)
  \/ InitSetRate(c)
  \/ InitCreate(c)
  \/ InitAssertOk(c)
  \/ InitAssertHandle(c)
  \/ InitRegister(c)

\* ------------------------------------------------------- specifications
\* The driver as the BSP uses it: ESP32_tickHookInit is called from the
\* startup sequence, any number of times with any arguments, one call at a
\* time, while ticks and the dispatch task run in any order.
Next ==
  \/ HwTick
  \/ tickHook_ESP32
  \/ \E t \in Tasks : QpTickTask(t)
  \/ \E r \in Rates, p \in Prios : InitCall(Startup, r, p)
  \/ ESP32_tickHookInit(Startup)

Spec == Init /\ [][Next]_vars

\* A tick handed to tickHook_ESP32 before the hook is registered, as if
\* the tick source called it during startup: the case the null check of
\* the hook is written for.
EarlyHwTick ==
  /\ ~halted
  /\ ~InIsr
  /\ tick_cb = <<>>
  /\ hwTicks < MaxTicks
  /\ hwTicks' = hwTicks + 1
  /\ isrLeft' = 1
  /\ tickInit' = FALSE
  /\ tickGives' = 0
  /\ UNCHANGED <<prog, notif, initv, hookPc, xHigherPriorityTaskWoken,
                 histHook, owed, histTask, histInit>>

NextEarly ==
  \/ Next
  \/ EarlyHwTick

SpecEarlyTick == Init /\ [][NextEarly]_vars

\* ESP32_tickHookInit called from several contexts whose calls may overlap:
\* a caller may be anywhere in the function while another one enters it.
\* Calls that begin after a call has completed are the repeat calls of
\* Spec, so callers enter here only until the first registration.
NextOverlap ==
  \/ HwTick
  \/ tickHook_ESP32
  \/ \E t \in Tasks : QpTickTask(t)
  \/ \E c \in Callers, r \in Rates, p \in Prios :
       tick_cb = <<>> /\ InitCall(c, r, p)
  \/ \E c \in Callers : ESP32_tickHookInit(c)

SpecOverlap == Init /\ [][NextOverlap]_vars

\* The same with the scheduling the claims about progress assume: the tick
\* interrupt runs to completion, and the dispatch task, when it can run,
\* is scheduled in the end (TICK_X returns).
Fairness ==
  /\ WF_vars(tickHook_ESP32)
  /\ \A t \in Tasks : WF_vars(QpTickTask(t))

FairSpec == Spec /\ Fairness

\* ---------------------------------------------------------------- claims
\* C1: every tick delivered to tickHook_ESP32 is eventually followed by an
\* invocation of TICK_X that starts after it, when the dispatch task is
\* scheduled fairly, wherever the tick lands: owed is set by each run of
\* the hook and cleared only by the start of a TICK_X.
C1_TickLeadsToTickX == owed ~> ~owed

\* C1 witness: gives have landed on a blocked task, on a woken task that
\* had not yet run and on a task inside TICK_X, and a TICK_X has started
\* after the last of them.
C1_Witness ==
  /\ landed = Landings
  /\ hwTicks = MaxTicks
  /\ ~InIsr
  /\ ~owed
  /\ tickXCalls >= 2

\* C2: every TICK_X made by QpTickTask receives as rateGroup the tickRate
\* passed to the first ESP32_tickHookInit call.
C2_RateGroupIsTickRate == tickXCalls > 0 => rateGroup = firstRate

\* C3: a call of ESP32_tickHookInit made after an earlier call has
\* completed changes nothing but its own locals: no step of it touches the
\* handle, the tick rate, any task (none is created, no priority or core
\* changes), the notification state or the registered hooks; and the task
\* keeps the priority of the first call.
C3_RepeatInitIsNoOp ==
  /\ [](s_qpTickTask # NULL => taskPrio[s_qpTickTask] = firstPrio)
  /\ [][(tick_cb # <<>> /\ initPc' # initPc) => UNCHANGED <<prog, notif>>]_vars

\* C3 witness: a call with other arguments than the first has returned
\* after the first call completed.
C3_Witness ==
  /\ repeatDiffered
  /\ NoCallInProgress
  /\ Len(tick_cb) = 1
  /\ Cardinality({t \in Tasks : taskPc[t] # "none"}) = 1

\* What the dispatch task still owes for the bursts signalled so far: one
\* TICK_X for the gives not yet taken, one for a take that has returned.
OwedCalls(t) ==
  (IF sinceTake[t] > 0 THEN 1 ELSE 0) + (IF taskPc[t] = "call" THEN 1 ELSE 0)

\* C4: the k >= 1 ticks signalled between two returns of the wait are one
\* burst, and the dispatch task makes exactly one TICK_X per burst; it is
\* blocked in the wait only with no notification pending.
C4_OneTickXPerBurst ==
  \A t \in Tasks :
    /\ taskPc[t] = "blocked" => ulNotifiedValue[t] = 0
    /\ t = s_qpTickTask => bursts = tickXCalls + OwedCalls(t)

\* C4 witness: MaxTicks ticks were signalled while the task was in the
\* wait, it then made one TICK_X and is blocked again, nothing pending.
C4_Witness ==
  /\ s_qpTickTask # NULL
  /\ gives = MaxTicks
  /\ landed \subseteq {"blocked", "resume"}
  /\ tickXCalls = 1
  /\ taskPc[s_qpTickTask] = "blocked"
  /\ ulNotifiedValue[s_qpTickTask] = 0

C6_NullHandleTickDropped ==
  /\ [](gives = 0 =>
          /\ tickXCalls = 0
          /\ \A t \in Tasks : taskPc[t] \in {"none", "take", "blocked"})
  /\ [][(hookPc = "check" /\ s_qpTickTask = NULL /\ hookPc' # hookPc) =>
          /\ hookPc' = "idle"
          /\ UNCHANGED <<prog, notif, initv, xHigherPriorityTaskWoken,
                         hookGives, gives, yielded, histTask>>]_vars

\* C6 witness: a tick was dropped at the null check, initialization then
\* completed, and the dispatch task is blocked with no TICK_X made.
C6_Witness ==
  /\ nullSeen
  /\ ~halted
  /\ ~InIsr
  /\ hwTicks = MaxTicks
  /\ tick_cb # <<>>
  /\ taskPc[s_qpTickTask] = "blocked"
  /\ gives = 0
  /\ ~yielded
  /\ tickXCalls = 0

\* C7: once a task creation has failed, the call never gets past the
\* assertion: the hook is not registered, no task exists, no TICK_X is made.
C7_CreateFailureIsFatal ==
  createFailed =>
    /\ tick_cb = <<>>
    /\ tickXCalls = 0
    /\ \A t \in Tasks : taskPc[t] = "none"
    /\ initPc[Startup] = "assertOk"

\* C7 witness: the creation failed and the assertion has halted the system
\* with the handle still null.
C7_Witness ==
  /\ createFailed
  /\ halted
  /\ s_qpTickTask = NULL

\* C8: every hardware tick that arrives with the hook registered makes
\* exactly one give, and every hook invocation makes exactly one give,
\* targeted at the dispatch task.
C8_OneGivePerTick ==
  /\ hookGives <= 1
  /\ hookPc \in {"test", "yield"} => hookGives = 1
  /\ (~InIsr /\ tickInit) =>
       /\ tickGives = 1
       /\ hookGives = 1
       /\ lastTarget = s_qpTickTask
       /\ taskPc[lastTarget] # "none"

\* C8 witness: every one of MaxTicks ticks after initialization has
\* made its one give.
C8_Witness ==
  /\ ~InIsr
  /\ tickInit
  /\ hwTicks = MaxTicks
  /\ gives = MaxTicks

\* C9 as claimed: the pending-notification value is 0 or 1.
C9_AtMostOnePending == \A t \in Tasks : ulNotifiedValue[t] \in {0, 1}

\* C9 as amended: the pending-notification value counts the gives made
\* since the last take of the dispatch task returned.
C9_PendingCountsGives == \A t \in Tasks : ulNotifiedValue[t] = sinceTake[t]

\* C9 witness: MaxTicks gives are pending for the dispatch task.
C9_Witness ==
  /\ s_qpTickTask # NULL
  /\ ulNotifiedValue[s_qpTickTask] = MaxTicks
  /\ MaxTicks > 1

\* C10: whenever the hook is registered, the handle is set, the task it
\* names exists and the tick rate of the call is recorded; no hook
\* invocation has found the handle null.
C10_RegisteredImpliesReady ==
  /\ tick_cb # <<>> =>
       /\ s_qpTickTask # NULL
       /\ taskPc[s_qpTickTask] # "none"
       /\ s_tickRate = firstRate
  /\ hookPc # "idle" => s_qpTickTask # NULL
  /\ ~nullSeen

\* C10 witness: a hook invocation made through the registration is about
\* to give to the task, with a tick rate other than the initial 0 recorded.
C10_Witness ==
  /\ tick_cb # <<>>
  /\ hookPc = "give"
  /\ s_tickRate = MaxRate
  /\ MaxRate > 0

\* C11: the handle and the tick rate are written once: after the first
\* ESP32_tickHookInit has completed no step changes either of them, and
\* no step outside ESP32_tickHookInit (the hook, the dispatch task, a
\* hardware tick) ever writes them.
C11_WrittenOnce ==
  /\ [][tick_cb # <<>> => UNCHANGED <<s_qpTickTask, s_tickRate>>]_vars
  /\ [][initPc' = initPc => UNCHANGED <<s_qpTickTask, s_tickRate>>]_vars

\* C11 witness: after the first call completed with a tick rate other than
\* the initial 0, the hook and the dispatch loop have run and a repeat call
\* with other arguments has returned.
C11_Witness ==
  /\ tick_cb # <<>>
  /\ NoCallInProgress
  /\ repeatDiffered
  /\ tickXCalls >= 2
  /\ s_tickRate = MaxRate
  /\ MaxRate > 0

\* C12: tickHook_ESP32 calls portYIELD_FROM_ISR exactly when its give
\* reported a higher-priority task woken: the request is made after the
\* give and before the return, and a hook that returns with the flag clear
\* or at the null check has requested nothing.
C12_YieldIffWoken ==
  /\ hookPc \in {"check", "give"} => ~xHigherPriorityTaskWoken
  /\ hookPc # "idle" => ~yielded
  /\ hookPc = "yield" => xHigherPriorityTaskWoken
  /\ xHigherPriorityTaskWoken => hookGives = 1
  /\ hookPc = "idle" => (yielded <=> xHigherPriorityTaskWoken)

\* C12 witness: one hook invocation was dropped at the null check without
\* a reschedule, a later one has woken the task and requested one.
C12_Witness ==
  /\ nullSeen
  /\ hookPc = "idle"
  /\ yielded
  /\ hookGives = 1

\* C13: every dispatch task is pinned to the core every hook registration
\* is made for.
C13_SameCore ==
  \A t \in Tasks : \A i \in DOMAIN tick_cb :
    taskPc[t] # "none" => taskCore[t] = tick_cb[i]

\* C13 witness: task and registration exist after a first call with the
\* largest arguments and a repeat call with others.
C13_Witness ==
  /\ tick_cb # <<>>
  /\ s_qpTickTask # NULL
  /\ firstRate = MaxRate
  /\ firstPrio = MaxPrio
  /\ repeatDiffered

\* C14: at most one dispatch task and at most one hook registration exist,
\* also when calls of ESP32_tickHookInit overlap.
C14_AtMostOneTaskAndHook ==
  /\ Cardinality({t \in Tasks : taskPc[t] # "none"}) <= 1
  /\ Len(tick_cb) <= 1

\* C15: the TICK_X invocations started, and the one a returned take is
\* about to start, never outnumber the gives; a take is about to return
\* only with a notification pending.
C15_NoSpuriousTickX ==
  /\ tickXCalls
       + Cardinality({t \in Tasks : taskPc[t] = "call"}) <= gives
  /\ \A t \in Tasks : taskPc[t] = "resume" => ulNotifiedValue[t] > 0

\* C15 witness: every one of MaxTicks gives was answered by its own TICK_X.
C15_Witness ==
  /\ gives = MaxTicks
  /\ tickXCalls = MaxTicks

\* C16: while no hook is registered no TICK_X has been made, and every
\* dispatch task is at or blocked in its wait.
C16_NoTickXBeforeRegistration ==
  tick_cb = <<>> =>
    /\ tickXCalls = 0
    /\ \A t \in Tasks : taskPc[t] \in {"none", "take", "blocked"}

\* C16 witness: the task was created and has blocked in its wait, ticks
\* have arrived, and the caller has not yet registered the hook.
C16_Witness ==
  /\ tick_cb = <<>>
  /\ initPc[Startup] = "register"
  /\ taskPc[s_qpTickTask] = "blocked"
  /\ hwTicks = MaxTicks
  /\ tickXCalls = 0

====
